---- MODULE Spec2Model ----
(***************************************************************************)
(* A model of nvd-client: the NvdApi facade (nvd_client/api.py), its       *)
(* request dispatcher _make_request, and the validators and the date       *)
(* converter of nvd_client/utils.py and nvd-client/utils.py.               *)
(*                                                                         *)
(* Python strings that the code inspects character by character (CVE ids,  *)
(* date strings, formatted timestamps) are sequences of one-character      *)
(* strings; strings the code only passes along or concatenates (URLs,      *)
(* proxies, API keys) are TLA+ strings.  A Python dict is the sequence of   *)
(* its <<key, value>> pairs in insertion order.                             *)
(***************************************************************************)
EXTENDS Integers, Sequences, FiniteSets, TLC

VARIABLES
    self,      \* the NvdApi instance: proxy, api_key, base_url_cve, base_url_cpe
    pc,        \* "idle": no facade call is running; "_make_request": a facade
               \* call has validated its input and is about to dispatch;
               \* "done": the call has ended and its outcome is with the caller
    call,      \* the arguments of the current (or last) facade call
    frame,     \* the arguments the facade passes to _make_request
    sent,      \* the requests.get calls issued during the current (or last) call
    response,  \* what requests.get did in the current (or last) call
    result,    \* how the last facade call ended: a return value or a raise
    u_fn,      \* the function of utils.py applied by a direct call ("" if none)
    u_args,    \* the arguments of that direct call
    u_ret,     \* its outcome: a return value or a raise
    libc       \* the C library of the host, which strftime formats with

vars == <<self, pc, call, frame, sent, response, result, u_fn, u_args, u_ret, libc>>

-----------------------------------------------------------------------------
(* Bounds of the model. *)

MaxPerPage == 1      \* per_page ranges over 1..MaxPerPage and the defaults
MaxOffset == 1       \* offset ranges over 0..MaxOffset

-----------------------------------------------------------------------------
(* Python values. *)

None == "<None>"

\* bool(v) of an Optional[str]: None and the empty string are falsy.
Truthy(v) == v # None /\ v # ""

\* A Python object passed where a date is expected: None, a str (a sequence
\* of characters) or a datetime.datetime.
PyNone == [t |-> "None", s |-> <<>>, year |-> 0, month |-> 0, day |-> 0,
           hour |-> 0, minute |-> 0, second |-> 0, microsecond |-> 0]

PyStr(chars) == [PyNone EXCEPT !.t = "str", !.s = chars]

PyDatetime(y, mo, d, h, mi, sec, us) ==
    [t |-> "datetime", s |-> <<>>, year |-> y, month |-> mo, day |-> d,
     hour |-> h, minute |-> mi, second |-> sec, microsecond |-> us]

\* bool(v) of such an object: None and "" are falsy, a datetime is truthy.
PyTruthy(v) ==
    CASE v.t = "None" -> FALSE
      [] v.t = "str" -> v.s # <<>>
      [] OTHER -> TRUE

\* How a call ends.  payload is the field the exception carries (cve_id,
\* missing_params, date_str); value is the value returned.
NoResult == [kind |-> "none", exc |-> "", payload |-> <<>>, value |-> None]

Return(v) == [kind |-> "return", exc |-> "", payload |-> <<>>, value |-> v]

Raise(e, p) == [kind |-> "raise", exc |-> e, payload |-> p, value |-> None]

\* "".join(chars): a sequence of characters as one string.
RECURSIVE Flatten(_)
Flatten(chars) ==
    IF chars = <<>> THEN "" ELSE Head(chars) \o Flatten(Tail(chars))

-----------------------------------------------------------------------------
(* Characters and decimal numerals. *)

AsciiDigits == <<"0", "1", "2", "3", "4", "5", "6", "7", "8", "9">>

\* Decimal digits outside ASCII (ARABIC-INDIC DIGIT ZERO, TWO, THREE, FOUR),
\* written by their code points, with the value int() gives them.
UnicodeDigits == <<"U+0660", "U+0662", "U+0663", "U+0664">>

UnicodeDigitValue == <<0, 2, 3, 4>>

Range(seq) == {seq[i] : i \in DOMAIN seq}

\* \d in a str pattern matches every Unicode decimal digit.
IsDigit(c) == c \in Range(AsciiDigits) \cup Range(UnicodeDigits)

\* [0-9] in a pattern matches the ASCII digits only.
IsAsciiDigit(c) == c \in Range(AsciiDigits)

\* int(c) of one decimal digit.
DigitValue(c) ==
    IF IsAsciiDigit(c)
    THEN (CHOOSE i \in DOMAIN AsciiDigits : AsciiDigits[i] = c) - 1
    ELSE UnicodeDigitValue[CHOOSE i \in DOMAIN UnicodeDigits : UnicodeDigits[i] = c]

\* int(chars) of a non-empty run of decimal digits.
RECURSIVE IntOf(_)
IntOf(chars) ==
    IF Len(chars) = 1 THEN DigitValue(chars[1])
    ELSE 10 * IntOf(SubSeq(chars, 1, Len(chars) - 1)) + DigitValue(chars[Len(chars)])

\* str(n) of a natural number, as characters.
RECURSIVE Decimal(_)
Decimal(n) ==
    IF n < 10 THEN <<AsciiDigits[n + 1]>>
    ELSE Decimal(n \div 10) \o <<AsciiDigits[(n % 10) + 1]>>

\* Left-pad with zeros to at least w characters.
RECURSIVE ZeroPad(_, _)
ZeroPad(chars, w) ==
    IF Len(chars) >= w THEN chars ELSE ZeroPad(<<"0">> \o chars, w)

\* str(v) of a Python object, as characters (only None and str reach it).
PyFormat(v) ==
    IF v.t = "None" THEN <<"N", "o", "n", "e">> ELSE v.s

-----------------------------------------------------------------------------
(* nvd_client/utils.py *)

\* `$` without re.MULTILINE matches at the end of the string and just before
\* a newline that ends the string.  p is the index of the next character.
AtDollar(s, p) == p = Len(s) + 1 \/ (p = Len(s) /\ s[p] = "\n")

\* re.match(r'^CVE-\d{4}-\d{4,}$', cve_id)
MatchCveId(cve_id) ==
    /\ Len(cve_id) >= 9
    /\ SubSeq(cve_id, 1, 4) = <<"C", "V", "E", "-">>
    /\ \A i \in 5..8 : IsDigit(cve_id[i])
    /\ cve_id[9] = "-"
    /\ \E n \in 4..(Len(cve_id) - 9) :
          /\ \A i \in 10..(9 + n) : IsDigit(cve_id[i])
          /\ AtDollar(cve_id, 10 + n)

True == "True"

validate_cve_id(cve_id) ==
    IF MatchCveId(cve_id)
    THEN Return(True)
    ELSE Raise("InvalidCVEIDError", cve_id)

\* %Y of strftime.  The C library decides the padding of a year below 1000:
\* glibc writes it unpadded, other platforms pad it with zeros to 4 digits.
strftime_Y(host, year) ==
    IF host = "glibc" THEN Decimal(year) ELSE ZeroPad(Decimal(year), 4)

\* date.strftime('%Y-%m-%dT%H:%M:%S.%f')
strftime(host, date) ==
    strftime_Y(host, date.year) \o <<"-">> \o ZeroPad(Decimal(date.month), 2)
        \o <<"-">> \o ZeroPad(Decimal(date.day), 2)
        \o <<"T">> \o ZeroPad(Decimal(date.hour), 2)
        \o <<":">> \o ZeroPad(Decimal(date.minute), 2)
        \o <<":">> \o ZeroPad(Decimal(date.second), 2)
        \o <<".">> \o ZeroPad(Decimal(date.microsecond), 6)

\* text[:-3]
DropLast3(text) == SubSeq(text, 1, Len(text) - 3)

convert_date_to_iso(host, date) ==
    IF date.t = "datetime"
    THEN Return(PyStr(DropLast3(strftime(host, date))))
    ELSE Raise("InvalidDateFormatError",
               <<"Invalid datetime object: ">> \o PyFormat(date))

\* The function without its elif branch: a half-given range passes as absent.
validate_and_convert_dates_no_elif(host, start_date, end_date, param_names) ==
    IF PyTruthy(start_date) /\ PyTruthy(end_date)
    THEN LET s == convert_date_to_iso(host, start_date)
             e == convert_date_to_iso(host, end_date)
         IN  IF s.kind = "raise" THEN s
             ELSE IF e.kind = "raise" THEN e
             ELSE Return(<<s.value, e.value>>)
    ELSE Return(<<PyNone, PyNone>>)

validate_and_convert_dates(host, start_date, end_date, param_names) ==
    IF PyTruthy(start_date) /\ PyTruthy(end_date)
    THEN LET s == convert_date_to_iso(host, start_date)
             e == convert_date_to_iso(host, end_date)
         IN  IF s.kind = "raise" THEN s
             ELSE IF e.kind = "raise" THEN e
             ELSE Return(<<s.value, e.value>>)
    ELSE IF PyTruthy(start_date) \/ PyTruthy(end_date)
    THEN Raise("InvalidParametersError", param_names)
    ELSE Return(<<PyNone, PyNone>>)


-----------------------------------------------------------------------------
(* nvd-client/utils.py: the variant of the validators that takes the dates *)
(* as 'YYYY-MM-DD' strings.                                                *)

IsLeap(year) == year % 4 = 0 /\ (year % 100 # 0 \/ year % 400 = 0)

DaysInMonth(year, month) ==
    IF month = 2 THEN (IF IsLeap(year) THEN 29 ELSE 28)
    ELSE IF month \in {4, 6, 9, 11} THEN 30 ELSE 31

\* (?P<m>1[0-2]|0[1-9]|[1-9]) at index p, taking n characters
MonthMatches(s, p, n) ==
    IF n = 2
    THEN /\ p + 1 <= Len(s)
         /\ \/ s[p] = "1" /\ s[p + 1] \in {"0", "1", "2"}
            \/ s[p] = "0" /\ IsAsciiDigit(s[p + 1]) /\ s[p + 1] # "0"
    ELSE p <= Len(s) /\ IsAsciiDigit(s[p]) /\ s[p] # "0"

\* (?P<d>3[0-1]|[1-2]\d|0[1-9]|[1-9]| [1-9]) at index p: the number of
\* characters the first alternative that matches takes, 0 when none does.
DayLength(s, p) ==
    IF /\ p + 1 <= Len(s)
       /\ \/ s[p] = "3" /\ s[p + 1] \in {"0", "1"}
          \/ s[p] \in {"1", "2"} /\ IsDigit(s[p + 1])
          \/ s[p] = "0" /\ IsAsciiDigit(s[p + 1]) /\ s[p + 1] # "0"
    THEN 2
    ELSE IF p <= Len(s) /\ IsAsciiDigit(s[p]) /\ s[p] # "0"
    THEN 1
    ELSE IF p + 1 <= Len(s) /\ s[p] = " " /\ IsAsciiDigit(s[p + 1]) /\ s[p + 1] # "0"
    THEN 2
    ELSE 0

\* The month alternative the match settles on: it must be followed by '-'
\* and a day.
MonthLength(s, p) ==
    LET ok(n) == /\ MonthMatches(s, p, n)
                 /\ p + n <= Len(s)
                 /\ s[p + n] = "-"
                 /\ DayLength(s, p + n + 1) > 0
    IN  IF ok(2) THEN 2 ELSE IF ok(1) THEN 1 ELSE 0

\* datetime.strptime(date_str, '%Y-%m-%d'): the datetime, or ValueError when
\* the text does not match, when text remains after the match, or when the
\* fields are no calendar date.
strptime(date_str) ==
    LET s == date_str
        yearOk == /\ Len(s) >= 5
                  /\ \A i \in 1..4 : IsDigit(s[i])
                  /\ s[5] = "-"
        mlen == MonthLength(s, 6)
        dpos == 6 + mlen + 1
        dlen == DayLength(s, dpos)
        year == IntOf(SubSeq(s, 1, 4))
        month == IntOf(SubSeq(s, 6, 5 + mlen))
        dtext == SubSeq(s, dpos, dpos + dlen - 1)
        day == IF dtext[1] = " " THEN IntOf(Tail(dtext)) ELSE IntOf(dtext)
    IN  IF ~yearOk \/ mlen = 0 THEN Raise("ValueError", <<"does not match format">>)
        ELSE IF dpos + dlen - 1 # Len(s)
        THEN Raise("ValueError", <<"unconverted data remains">>)
        ELSE IF year < 1 THEN Raise("ValueError", <<"year is out of range">>)
        ELSE IF day > DaysInMonth(year, month)
        THEN Raise("ValueError", <<"day is out of range for month">>)
        ELSE Return(PyDatetime(year, month, day, 0, 0, 0, 0))

\* re.match(r'^\d{4}-\d{2}-\d{2}$', date_str)
MatchDate(date_str) ==
    /\ Len(date_str) >= 10
    /\ \A i \in {1, 2, 3, 4, 6, 7, 9, 10} : IsDigit(date_str[i])
    /\ date_str[5] = "-" /\ date_str[8] = "-"
    /\ AtDollar(date_str, 11)

legacy_validate_date_format(date_str) ==
    IF MatchDate(date_str)
    THEN strptime(date_str).kind = "return"
    ELSE FALSE

legacy_convert_date_to_iso(host, date_str) ==
    IF legacy_validate_date_format(date_str)
    THEN Return(PyStr(DropLast3(strftime(host, strptime(date_str).value))))
    ELSE Raise("InvalidDateFormatError", date_str)


-----------------------------------------------------------------------------
(* nvd_client/api.py: NvdApi *)

\* The value of a query parameter: an int or a str.
IntValue(n) == <<"int", n>>

StrValue(text) == <<"str", text>>

\* f"{v}"
Format(v) == IF v[1] = "int" THEN ToString(v[2]) ELSE v[2]

\* d[k] = v on a dict: a new key goes last, an old key keeps its place.
DictSet(d, k, v) ==
    IF \E i \in DOMAIN d : d[i][1] = k
    THEN [i \in DOMAIN d |-> IF d[i][1] = k THEN <<k, v>> ELSE d[i]]
    ELSE Append(d, <<k, v>>)

\* d.update(k1=v1, k2=v2, ...): the keyword arguments in their order.
RECURSIVE DictUpdate(_, _)
DictUpdate(d, kvs) ==
    IF kvs = <<>> THEN d
    ELSE DictUpdate(DictSet(d, Head(kvs)[1], Head(kvs)[2]), Tail(kvs))

\* sep.join(parts)
RECURSIVE Join(_, _)
Join(sep, parts) ==
    IF parts = <<>> THEN ""
    ELSE IF Len(parts) = 1 THEN parts[1]
    ELSE parts[1] \o sep \o Join(sep, Tail(parts))

\* _verifier with the pairs taken from the last key to the first.
_verifier_reversed(params) ==
    Join("&", [i \in DOMAIN params |->
                  params[Len(params) + 1 - i][1] \o "="
                      \o Format(params[Len(params) + 1 - i][2])])

\* "&".join([f"{k}={v}" for k, v in params.items()])
_verifier(params) ==
    Join("&", [i \in DOMAIN params |-> params[i][1] \o "=" \o Format(params[i][2])])

NvdApi_init(api_key, proxy) ==
    [api_key |-> api_key,
     proxy |-> proxy,
     base_url_cve |-> "https://services.nvd.nist.gov/rest/json/cves/2.0",
     base_url_cpe |-> "https://services.nvd.nist.gov/rest/json/cpematch/2.0"]

\* The arguments of _make_request.
NoFrame == [params |-> <<>>, proxy |-> None, type_of |-> ""]

\* link = f"{base}?{parameters}", the base chosen by type_of
Link(obj, params, type_of) ==
    IF type_of = "cve"
    THEN obj.base_url_cve \o "?" \o _verifier(params)
    ELSE obj.base_url_cpe \o "?" \o _verifier(params)

\* The header attached whatever the key is.
HeadersAlways(obj) == << <<"apiKey", obj.api_key>> >>

\* headers = {'apiKey': self.api_key} if self.api_key else {}
Headers(obj) ==
    IF Truthy(obj.api_key) THEN << <<"apiKey", obj.api_key>> >> ELSE <<>>

\* The proxies argument of requests.get; <<>> when the call passes none.
Proxies(obj, proxy) ==
    IF Truthy(obj.proxy)
    THEN << <<"http", obj.proxy>>, <<"https", obj.proxy>> >>
    ELSE IF Truthy(proxy)
    THEN << <<"http", proxy>>, <<"https", proxy>> >>
    ELSE <<>>

\* One requests.get call.
Request(obj, f) ==
    [method |-> "GET",
     url |-> Link(obj, f.params, f.type_of),
     headers |-> Headers(obj),
     proxies |-> Proxies(obj, f.proxy)]

\* What requests.get does: it raises, or returns a response.
TransportErrors == {"Timeout", "ConnectionError", "ChunkedEncodingError"}

Statuses == {200, 300, 404, 503}

JsonText == "{\"totalResults\": 0}"

JsonDocument == "dict(totalResults=0)"

Bodies == {JsonText, "null", "<html>"}

NoResponse == [exc |-> "", status |-> 0, body |-> ""]

Responses ==
    [exc : TransportErrors, status : {0}, body : {""}]
        \cup [exc : {""}, status : Statuses, body : Bodies]

\* response.raise_for_status(): HTTPError for a 4xx or 5xx status.
raise_for_status(resp) == resp.status >= 400 /\ resp.status < 600

\* response.json()
json(resp) ==
    CASE resp.body = JsonText -> Return(JsonDocument)
      [] resp.body = "null" -> Return(None)
      [] OTHER -> Raise("JSONDecodeError", <<>>)

\* The body of the try statement of _make_request, given what requests.get did.
TryBody(resp) ==
    IF resp.exc # "" THEN Raise(resp.exc, <<>>)
    ELSE IF raise_for_status(resp) THEN Raise("HTTPError", <<>>)
    ELSE json(resp)

\* A handler that catches the transport's errors only.
ExceptTransportErrors(r) ==
    IF r.kind = "raise" /\ r.exc \in TransportErrors THEN Return(None) ELSE r

\* except Exception as e: return None
ExceptException(r) == IF r.kind = "raise" THEN Return(None) ELSE r

\* What a facade method does before it returns, raises or dispatches.
Raised(r) == [frame |-> NoFrame, result |-> r, dispatch |-> FALSE]

Returned(v) == [frame |-> NoFrame, result |-> Return(v), dispatch |-> FALSE]

\* if proxy: return self._make_request(..., proxy=proxy)
\* return self._make_request(...)
Dispatch(params, type_of, proxy) ==
    [frame |-> [params |-> params,
                proxy |-> IF Truthy(proxy) THEN proxy ELSE None,
                type_of |-> type_of],
     result |-> NoResult,
     dispatch |-> TRUE]

get_all_cves_body(per_page, offset, proxy) ==
    Dispatch(<< <<"resultsPerPage", IntValue(per_page)>>,
                <<"startIndex", IntValue(offset)>> >>, "cve", proxy)

get_cve_by_id_body(cve_id, proxy) ==
    LET v == validate_cve_id(cve_id)
    IN  IF v.kind = "raise" THEN Raised(v)
        ELSE IF v.value = True
        THEN Dispatch(<< <<"cveId", StrValue(Flatten(cve_id))>> >>, "cve", proxy)
        ELSE Returned(None)

\* The first lines of get_cve_by_date and get_cve_by_cpe: both date pairs are
\* validated and converted, then the pairs that are present become parameters.
DateParameters(host, publish_start_date, publish_end_date, modify_start_date, modify_end_date) ==
    LET p == validate_and_convert_dates(host, publish_start_date, publish_end_date,
                 <<"publish_start_date", "publish_end_date">>)
        m == validate_and_convert_dates(host, modify_start_date, modify_end_date,
                 <<"modify_start_date", "modify_end_date">>)
        withPub == IF PyTruthy(p.value[1]) /\ PyTruthy(p.value[2])
                   THEN DictUpdate(<<>>,
                            << <<"pubStartDate", StrValue(Flatten(p.value[1].s))>>,
                               <<"pubEndDate", StrValue(Flatten(p.value[2].s))>> >>)
                   ELSE <<>>
        withMod == IF PyTruthy(m.value[1]) /\ PyTruthy(m.value[2])
                   THEN DictUpdate(withPub,
                            << <<"lastModStartDate", StrValue(Flatten(m.value[1].s))>>,
                               <<"lastModEndDate", StrValue(Flatten(m.value[2].s))>> >>)
                   ELSE withPub
    IN  IF p.kind = "raise" THEN Raise(p.exc, p.payload)
        ELSE IF m.kind = "raise" THEN Raise(m.exc, m.payload)
        ELSE Return(withMod)

get_cve_by_date_body(host, per_page, offset, publish_start_date, publish_end_date, modify_start_date, modify_end_date, proxy) ==
    LET d == DateParameters(host, publish_start_date, publish_end_date,
                            modify_start_date, modify_end_date)
    IN  IF d.kind = "raise" THEN Raised(d)
        ELSE Dispatch(DictUpdate(d.value,
                          << <<"resultsPerPage", IntValue(per_page)>>,
                             <<"startIndex", IntValue(offset)>> >>), "cve", proxy)

get_cve_by_cpe_body(host, cpe_name, per_page, offset, publish_start_date, publish_end_date, modify_start_date, modify_end_date, proxy) ==
    LET d == DateParameters(host, publish_start_date, publish_end_date,
                            modify_start_date, modify_end_date)
    IN  IF d.kind = "raise" THEN Raised(d)
        ELSE Dispatch(DictUpdate(d.value,
                          << <<"resultsPerPage", IntValue(per_page)>>,
                             <<"startIndex", IntValue(offset)>>,
                             <<"cpeName", StrValue(cpe_name)>> >>), "cve", proxy)

get_cpes_by_cve_body(cve_id, per_page, offset, proxy) ==
    LET v == validate_cve_id(cve_id)
    IN  IF v.kind = "raise" THEN Raised(v)
        ELSE IF v.value = True
        THEN Dispatch(DictUpdate(<<>>,
                          << <<"resultsPerPage", IntValue(per_page)>>,
                             <<"startIndex", IntValue(offset)>>,
                             <<"cveId", StrValue(Flatten(cve_id))>> >>), "cpe", proxy)
        ELSE Returned(None)

\* The call of _make_request without type_of="cpe".
get_cpes_by_criteria_body_default_type(criteria, per_page, offset, proxy) ==
    Dispatch(DictUpdate(<<>>,
                 << <<"resultsPerPage", IntValue(per_page)>>,
                    <<"startIndex", IntValue(offset)>>,
                    <<"matchStringSearch", StrValue(criteria)>> >>), "cve", proxy)

get_cpes_by_criteria_body(criteria, per_page, offset, proxy) ==
    Dispatch(DictUpdate(<<>>,
                 << <<"resultsPerPage", IntValue(per_page)>>,
                    <<"startIndex", IntValue(offset)>>,
                    <<"matchStringSearch", StrValue(criteria)>> >>), "cpe", proxy)

get_cpes_by_criteria_name_id_body(criteria_name_id, per_page, offset, proxy) ==
    Dispatch(DictUpdate(<<>>,
                 << <<"resultsPerPage", IntValue(per_page)>>,
                    <<"startIndex", IntValue(offset)>>,
                    <<"matchCriteriaId", StrValue(criteria_name_id)>> >>), "cpe", proxy)


-----------------------------------------------------------------------------
(* The values the facade is called with. *)

ApiKeys == {None, "", "key-1"}

ClientProxies == {None, "", "socks5://client:1080"}

ProxyArgs == {None, "", "socks5://call:1080"}

CvePerPages == {2000} \cup (1..MaxPerPage)

CpePerPages == {500} \cup (1..MaxPerPage)

Offsets == 0..MaxOffset

Libcs == {"glibc", "other"}

Log4Shell == <<"C", "V", "E", "-", "2", "0", "2", "1", "-", "4", "4", "2", "2", "8">>

CveIdArgs ==
    {Log4Shell,
     Log4Shell \o <<"\n">>,
     Log4Shell \o <<"x">>,
     <<"n", "o", "t", "-", "a", "-", "c", "v", "e">>,
     <<"C", "V", "E", "-", "2", "0", "2", "1", "-", "1", "2", "3">>}

Jan1 == <<"2", "0", "2", "4", "-", "0", "1", "-", "0", "1">>

NewYear == PyDatetime(2024, 1, 1, 0, 0, 0, 0)

YearEnd == PyDatetime(2024, 12, 31, 23, 59, 59, 999999)

\* The <<start, end>> pairs of a date range: absent, complete, half given,
\* and one with a str where a datetime is expected.
DatePairs ==
    {<<PyNone, PyNone>>, <<NewYear, YearEnd>>, <<NewYear, PyNone>>,
     <<PyNone, YearEnd>>, <<PyStr(Jan1), YearEnd>>}

CpeNames == {"cpe:2.3:o:linux:linux_kernel:5.0"}

Criterias == {"cpe:2.3:a:apache:log4j"}

CriteriaNameIds == {"36FBCF0F-8CEE-474C-8A04-5075AF53FAF4"}

NoCall ==
    [cve_id |-> <<>>, text |-> "", proxy |-> None, per_page |-> 0, offset |-> 0,
     publish_start_date |-> PyNone, publish_end_date |-> PyNone,
     modify_start_date |-> PyNone, modify_end_date |-> PyNone, op |-> ""]

-----------------------------------------------------------------------------
(* The facade: one action per public method, and _make_request. *)

Init ==
    /\ self \in {NvdApi_init(k, p) : k \in ApiKeys, p \in ClientProxies}
    /\ libc \in Libcs
    /\ pc = "idle"
    /\ call = NoCall
    /\ frame = NoFrame
    /\ sent = <<>>
    /\ response = NoResponse
    /\ result = NoResult
    /\ u_fn = ""
    /\ u_args = <<>>
    /\ u_ret = NoResult

\* A facade method is entered with arguments c and runs up to its return,
\* its raise or its call of _make_request.
Begin(c, b) ==
    /\ pc = "idle"
    /\ call' = c
    /\ sent' = <<>>
    /\ response' = NoResponse
    /\ result' = b.result
    /\ frame' = b.frame
    /\ pc' = IF b.dispatch THEN "_make_request" ELSE "done"
    /\ UNCHANGED <<self, u_fn, u_args, u_ret, libc>>

get_all_cves ==
    \E per_page \in CvePerPages, offset \in Offsets, proxy \in ProxyArgs :
        Begin([NoCall EXCEPT !.op = "get_all_cves", !.per_page = per_page,
                             !.offset = offset, !.proxy = proxy],
              get_all_cves_body(per_page, offset, proxy))

\* get_cve_by_id with the request issued before the id is validated.
get_cve_by_id_request_first ==
    \E cve_id \in CveIdArgs, proxy \in ProxyArgs :
        LET f == Dispatch(<< <<"cveId", StrValue(Flatten(cve_id))>> >>,
                          "cve", proxy).frame
            v == validate_cve_id(cve_id)
        IN  /\ pc = "idle"
            /\ call' = [NoCall EXCEPT !.op = "get_cve_by_id", !.cve_id = cve_id,
                                      !.proxy = proxy]
            /\ frame' = f
            /\ sent' = <<Request(self, f)>>
            /\ \E resp \in Responses :
                  /\ response' = resp
                  /\ result' = IF v.kind = "raise" THEN v
                                ELSE ExceptException(TryBody(resp))
            /\ pc' = "done"
            /\ UNCHANGED <<self, u_fn, u_args, u_ret, libc>>

get_cve_by_id ==
    \E cve_id \in CveIdArgs, proxy \in ProxyArgs :
        Begin([NoCall EXCEPT !.op = "get_cve_by_id", !.cve_id = cve_id,
                             !.proxy = proxy],
              get_cve_by_id_body(cve_id, proxy))

get_cve_by_date ==
    \E per_page \in CvePerPages, offset \in Offsets, proxy \in ProxyArgs,
       pub \in DatePairs, mod \in DatePairs :
        Begin([NoCall EXCEPT !.op = "get_cve_by_date", !.per_page = per_page,
                             !.offset = offset, !.proxy = proxy,
                             !.publish_start_date = pub[1],
                             !.publish_end_date = pub[2],
                             !.modify_start_date = mod[1],
                             !.modify_end_date = mod[2]],
              get_cve_by_date_body(libc, per_page, offset, pub[1], pub[2],
                                   mod[1], mod[2], proxy))

get_cve_by_cpe ==
    \E cpe_name \in CpeNames, per_page \in CvePerPages, offset \in Offsets,
       proxy \in ProxyArgs, pub \in DatePairs, mod \in DatePairs :
        Begin([NoCall EXCEPT !.op = "get_cve_by_cpe", !.text = cpe_name,
                             !.per_page = per_page,
                             !.offset = offset, !.proxy = proxy,
                             !.publish_start_date = pub[1],
                             !.publish_end_date = pub[2],
                             !.modify_start_date = mod[1],
                             !.modify_end_date = mod[2]],
              get_cve_by_cpe_body(libc, cpe_name, per_page, offset,
                                  pub[1], pub[2], mod[1], mod[2], proxy))

get_cpes_by_cve ==
    \E cve_id \in CveIdArgs, per_page \in CpePerPages, offset \in Offsets,
       proxy \in ProxyArgs :
        Begin([NoCall EXCEPT !.op = "get_cpes_by_cve", !.cve_id = cve_id,
                             !.per_page = per_page, !.offset = offset,
                             !.proxy = proxy],
              get_cpes_by_cve_body(cve_id, per_page, offset, proxy))

get_cpes_by_criteria ==
    \E criteria \in Criterias, per_page \in CpePerPages, offset \in Offsets,
       proxy \in ProxyArgs :
        Begin([NoCall EXCEPT !.op = "get_cpes_by_criteria", !.text = criteria,
                             !.per_page = per_page, !.offset = offset,
                             !.proxy = proxy],
              get_cpes_by_criteria_body(criteria, per_page, offset, proxy))

get_cpes_by_criteria_name_id ==
    \E criteria_name_id \in CriteriaNameIds, per_page \in CpePerPages,
       offset \in Offsets, proxy \in ProxyArgs :
        Begin([NoCall EXCEPT !.op = "get_cpes_by_criteria_name_id",
                             !.text = criteria_name_id,
                             !.per_page = per_page, !.offset = offset,
                             !.proxy = proxy],
              get_cpes_by_criteria_name_id_body(criteria_name_id, per_page,
                                                offset, proxy))

\* _make_request with one more attempt after a failed request.
_make_request_retry ==
    /\ pc = "_make_request"
    /\ \E resp \in Responses :
          /\ response' = resp
          /\ result' = ExceptException(TryBody(resp))
          /\ sent' = IF TryBody(resp).kind = "raise"
                     THEN sent \o <<Request(self, frame), Request(self, frame)>>
                     ELSE Append(sent, Request(self, frame))
    /\ pc' = "done"
    /\ UNCHANGED <<self, call, frame, u_fn, u_args, u_ret, libc>>

\* _make_request keeping the proxy of the call on the instance.
_make_request_stores_proxy ==
    /\ pc = "_make_request"
    /\ \E resp \in Responses :
          /\ sent' = Append(sent, Request(self, frame))
          /\ response' = resp
          /\ result' = ExceptException(TryBody(resp))
    /\ self' = [self EXCEPT !.proxy = IF Truthy(frame.proxy) THEN frame.proxy ELSE @]
    /\ pc' = "done"
    /\ UNCHANGED <<call, frame, u_fn, u_args, u_ret, libc>>

\* _make_request: one requests.get, answered by the transport with resp, then
\* raise_for_status and json, every exception turned into None.
_make_request ==
    /\ pc = "_make_request"
    /\ \E resp \in Responses :
          /\ sent' = Append(sent, Request(self, frame))
          /\ response' = resp
          /\ result' = ExceptException(TryBody(resp))
    /\ pc' = "done"
    /\ UNCHANGED <<self, call, frame, u_fn, u_args, u_ret, libc>>

\* The caller has the outcome; the locals of the call are gone and only the
\* instance remains for the next call.
ReturnToCaller ==
    /\ pc = "done"
    /\ pc' = "idle"
    /\ call' = NoCall
    /\ frame' = NoFrame
    /\ sent' = <<>>
    /\ response' = NoResponse
    /\ result' = NoResult
    /\ UNCHANGED <<self, u_fn, u_args, u_ret, libc>>

Next ==
    \/ get_all_cves
    \/ get_cve_by_id
    \/ get_cve_by_date
    \/ get_cve_by_cpe
    \/ get_cpes_by_cve
    \/ get_cpes_by_criteria
    \/ get_cpes_by_criteria_name_id
    \/ _make_request
    \/ ReturnToCaller

Spec == Init /\ [][Next]_vars


-----------------------------------------------------------------------------
(* Direct calls of the functions of utils.py: the inputs. *)

MaxDigits == 5       \* the longest run of digits in a generated CVE id

\* k characters: ones, then `last`.
Run(k, last) == [i \in 1..k |-> IF i = k THEN last ELSE "1"]

\* Runs that end in an ASCII digit, in a digit outside ASCII, in a letter.
DigitRuns(lo, hi) == {Run(k, c) : k \in lo..hi, c \in {"1", "U+0663", "x"}}

CvePrefixes ==
    {<<"C", "V", "E", "-">>, <<"c", "v", "e", "-">>,
     <<"x", "C", "V", "E", "-">>, <<"C", "V", "E">>}

Tails ==
    {<<>>, <<"\n">>, <<"x">>, <<"\n", "\n">>, <<"x", "\n">>, <<"\n", "x">>}

CveIdStrings ==
    {p \o y \o sep \o n \o t :
        p \in CvePrefixes, y \in DigitRuns(3, 5), sep \in {<<"-">>, <<"_">>},
        n \in DigitRuns(3, MaxDigits), t \in Tails}

Years == {1, 999, 1000, 2024, 9999}

Micros == {0, 999, 1000, 123456, 999999}

Datetimes ==
    {PyDatetime(y, mo, d, h, mi, sec, us) :
        y \in Years, mo \in {1, 12}, d \in {1, 31}, h \in {0, 23},
        mi \in {0, 59}, sec \in {0, 59}, us \in Micros}

NonDatetimes ==
    {PyNone, PyStr(<<>>), PyStr(Jan1),
     PyStr(<<"2", "0", "2", "4", "-", "1", "3", "-", "4", "0">>)}

\* The values of one end of a date range.
RangeEnds ==
    {PyNone, PyStr(<<>>), PyStr(Jan1), PyDatetime(999, 2, 3, 4, 5, 6, 7008),
     NewYear, YearEnd}

ParamNames ==
    {<<"publish_start_date", "publish_end_date">>,
     <<"modify_start_date", "modify_end_date">>}

YearTexts ==
    {<<"0", "0", "0", "0">>, <<"0", "0", "0", "1">>,
     <<"0", "9", "9", "9">>, <<"1", "0", "0", "0">>,
     <<"1", "9", "0", "0">>, <<"2", "0", "0", "0">>,
     <<"2", "0", "2", "3">>, <<"2", "0", "2", "4">>,
     <<"9", "9", "9", "9">>, <<"2", "0", "2">>,
     <<"2", "0", "2", "4", "5">>,
     <<"U+0662", "U+0660", "U+0662", "U+0664">>}

MonthTexts ==
    {<<"0", "0">>, <<"0", "1">>, <<"0", "2">>, <<"0", "4">>, <<"1", "2">>,
     <<"1", "3">>, <<"1">>, <<"U+0660", "1">>}

DayTexts ==
    {<<"0", "0">>, <<"0", "1">>, <<"2", "8">>, <<"2", "9">>, <<"3", "0">>,
     <<"3", "1">>, <<"3", "2">>, <<"4", "0">>, <<"1">>, <<" ", "1">>,
     <<"2", "U+0663">>}

DateStrings ==
    {y \o sep \o m \o sep \o d \o t :
        y \in YearTexts, m \in MonthTexts, d \in DayTexts,
        sep \in {<<"-">>, <<"/">>}, t \in {<<>>, <<"\n">>, <<"x">>}}

MaxParams == 2       \* the most keys in a generated parameters dictionary

ParamKeys == {"resultsPerPage", "startIndex", "cpeName"}

\* Ints and strs, some with the characters a URL reserves.
ParamValues ==
    {IntValue(2000), IntValue(0), IntValue(0 - 1), StrValue(""),
     StrValue("cpe:2.3:a:b&c=d e"), StrValue("%26")}

\* Dictionaries: pairs in insertion order, no key twice.
ParamDicts ==
    UNION {{d \in [1..n -> ParamKeys \X ParamValues] :
               \A i, j \in 1..n : d[i][1] = d[j][1] => i = j} :
           n \in 0..MaxParams}

-----------------------------------------------------------------------------
(* Direct calls of the functions of utils.py and of NvdApi._verifier: one
   action per function. *)

InitUtils ==
    /\ self = NvdApi_init(None, None)
    /\ libc \in Libcs
    /\ pc = "idle"
    /\ call = NoCall
    /\ frame = NoFrame
    /\ sent = <<>>
    /\ response = NoResponse
    /\ result = NoResult
    /\ u_ret = NoResult
    /\ \/ u_fn = "validate_cve_id"
          /\ u_args \in {<<s>> : s \in CveIdStrings}
       \/ u_fn = "convert_date_to_iso"
          /\ u_args \in {<<d>> : d \in Datetimes \cup NonDatetimes}
       \/ u_fn = "validate_and_convert_dates"
          /\ u_args \in RangeEnds \X RangeEnds \X ParamNames
       \/ u_fn = "legacy_convert_date_to_iso"
          /\ u_args \in {<<s>> : s \in DateStrings}
       \/ u_fn = "_verifier"
          /\ u_args \in {<<d>> : d \in ParamDicts}

Apply(fn, ret) ==
    /\ u_fn = fn
    /\ u_ret.kind = "none"
    /\ u_ret' = ret
    /\ UNCHANGED <<self, pc, call, frame, sent, response, result, u_fn, u_args, libc>>

call_validate_cve_id ==
    Apply("validate_cve_id", validate_cve_id(u_args[1]))

call_convert_date_to_iso ==
    Apply("convert_date_to_iso", convert_date_to_iso(libc, u_args[1]))

call_validate_and_convert_dates ==
    Apply("validate_and_convert_dates",
          validate_and_convert_dates(libc, u_args[1], u_args[2], u_args[3]))

call_legacy_convert_date_to_iso ==
    Apply("legacy_convert_date_to_iso",
          legacy_convert_date_to_iso(libc, u_args[1]))

\* NvdApi._verifier(params); the caller may build again from the same
\* dictionary.
call__verifier ==
    /\ u_fn = "_verifier"
    /\ u_ret' = Return(_verifier(u_args[1]))
    /\ UNCHANGED <<self, pc, call, frame, sent, response, result, u_fn, u_args, libc>>

NextUtils ==
    \/ call__verifier
    \/ call_validate_cve_id
    \/ call_convert_date_to_iso
    \/ call_validate_and_convert_dates
    \/ call_legacy_convert_date_to_iso

SpecUtils == InitUtils /\ [][NextUtils]_vars


-----------------------------------------------------------------------------
(* Properties of the facade, checked under Spec. *)

ValidationErrors ==
    {"InvalidCVEIDError", "InvalidParametersError", "InvalidDateFormatError"}

\* C1: a facade call that ends by raising a validation error has issued no
\* HTTP request: the raise precedes the first requests.get.
C1_NoRequestBeforeValidationError ==
    (result.kind = "raise" /\ result.exc \in ValidationErrors) => sent = <<>>

\* get_cve_by_date with a complete publish pair and a half-given modify pair
\* has raised, and nothing was sent.
C1_Witness ==
    /\ pc = "done"
    /\ call.op = "get_cve_by_date"
    /\ call.publish_start_date = NewYear /\ call.publish_end_date = YearEnd
    /\ call.modify_start_date = NewYear /\ call.modify_end_date = PyNone
    /\ result = Raise("InvalidParametersError",
                      <<"modify_start_date", "modify_end_date">>)
    /\ sent = <<>>

\* The request of the call failed: the transport raised, the status is one
\* raise_for_status rejects, or the body is no JSON document.
TransportFailed == response.exc # ""

BodyUnparseable == response.exc = "" /\ response.body \notin {JsonText, "null"}

Dispatched == pc = "done" /\ sent # <<>>

Through(p) == << <<"http", p>>, <<"https", p>> >>

\* C5: a per-call proxy overrides the client-level proxy; when only one of
\* the two is given that one is used; when neither is given no proxy is used.
C5_PerCallProxyOverrides ==
    \A i \in DOMAIN sent :
        sent[i].proxies =
            IF Truthy(call.proxy) THEN Through(call.proxy)
            ELSE IF Truthy(self.proxy) THEN Through(self.proxy)
            ELSE <<>>

\* C7: a request carries an apiKey header if and only if an API key (a
\* non-empty one) was configured at construction, and its value is that key.
C7_ApiKeyHeaderIffConfigured ==
    \A i \in DOMAIN sent :
        IF self.api_key # None /\ self.api_key # ""
        THEN sent[i].headers = << <<"apiKey", self.api_key>> >>
        ELSE sent[i].headers = <<>>

\* A request went out from a client constructed with a key.
C7_Witness ==
    /\ Dispatched
    /\ self.api_key = "key-1"
    /\ sent[1].headers = << <<"apiKey", "key-1">> >>

\* C8: no facade call changes the configuration of the instance: api_key,
\* proxy, base_url_cve and base_url_cpe stay as construction set them.
C8_ConfigurationNeverChanges == [][self' = self]_vars

\* A call with a per-call proxy other than the client's has completed.
C8_Witness ==
    /\ Dispatched
    /\ Truthy(call.proxy) /\ call.proxy # self.proxy
    /\ self.proxy = "socks5://client:1080"

\* C9: a facade call performs exactly one GET when validation passes and
\* none when it fails; a failed request is not retried.
C9_SingleGet ==
    /\ Len(sent) <= 1
    /\ pc = "_make_request" => sent = <<>>
    /\ pc = "done" => Len(sent) = (IF result.kind = "raise" THEN 0 ELSE 1)

\* A request failed with status 503 and None came back after one GET.
C9_Witness ==
    /\ pc = "done"
    /\ response.status = 503
    /\ result = Return(None)
    /\ Len(sent) = 1

CveOperations ==
    {"get_all_cves", "get_cve_by_id", "get_cve_by_date", "get_cve_by_cpe"}

CpeOperations ==
    {"get_cpes_by_cve", "get_cpes_by_criteria", "get_cpes_by_criteria_name_id"}

\* C10: the CVE operations request the CVE search URL and the CPE operations
\* the CPE-match URL, with or without a per-call proxy.
C10_EndpointByOperation ==
    \A i \in DOMAIN sent :
        /\ call.op \in CveOperations =>
              sent[i].url = "https://services.nvd.nist.gov/rest/json/cves/2.0"
                                \o "?" \o _verifier(frame.params)
        /\ call.op \in CpeOperations =>
              sent[i].url = "https://services.nvd.nist.gov/rest/json/cpematch/2.0"
                                \o "?" \o _verifier(frame.params)
        /\ call.op \in CveOperations \cup CpeOperations

\* get_cpes_by_criteria has sent its request with a per-call proxy.
C10_Witness ==
    /\ Dispatched
    /\ call.op = "get_cpes_by_criteria"
    /\ Truthy(call.proxy)
    /\ sent[1].url = "https://services.nvd.nist.gov/rest/json/cpematch/2.0"
                         \o "?resultsPerPage=500&startIndex=0"
                         \o "&matchStringSearch=cpe:2.3:a:apache:log4j"


-----------------------------------------------------------------------------
(* Properties of the functions of utils.py, checked under SpecUtils. *)

Applied(fn) == u_fn = fn /\ u_ret.kind # "none"

\* CVE-, exactly four digits, a hyphen, four or more digits, nothing else.
IsCveId(text) ==
    /\ Len(text) >= 13
    /\ SubSeq(text, 1, 4) = <<"C", "V", "E", "-">>
    /\ \A i \in 5..8 : IsDigit(text[i])
    /\ text[9] = "-"
    /\ \A i \in 10..Len(text) : IsDigit(text[i])

\* C2: validate_cve_id returns True for every string of the form CVE-, four
\* digits, a hyphen, four or more digits, and raises InvalidCVEIDError with
\* the offending string for every other string, extra characters included.
C2_AcceptsExactlyCveIds ==
    Applied("validate_cve_id") =>
        IF IsCveId(u_args[1])
        THEN u_ret = Return(True)
        ELSE u_ret = Raise("InvalidCVEIDError", u_args[1])

\* The text out is the timestamp of datetime d cut to milliseconds: read from
\* its end it holds .mmm, :SS, :MM, THH, -DD, -MM and before them the year.
IsIsoOf(out, d) ==
    LET n == Len(out)
        num(i, j) == IntOf(SubSeq(out, i, j))
    IN  /\ n >= 20
        /\ \A i \in (1..(n - 19)) \cup {n - 17, n - 16, n - 14, n - 13,
                n - 11, n - 10, n - 8, n - 7, n - 5, n - 4, n - 2, n - 1, n} :
              IsAsciiDigit(out[i])
        /\ out[n - 18] = "-" /\ out[n - 15] = "-" /\ out[n - 12] = "T"
        /\ out[n - 9] = ":" /\ out[n - 6] = ":" /\ out[n - 3] = "."
        /\ num(1, n - 19) = d.year
        /\ num(n - 17, n - 16) = d.month
        /\ num(n - 14, n - 13) = d.day
        /\ num(n - 11, n - 10) = d.hour
        /\ num(n - 8, n - 7) = d.minute
        /\ num(n - 5, n - 4) = d.second
        /\ num(n - 2, n) = d.microsecond \div 1000

\* The exception carries the offending value: as its field, or written out
\* at the end of the text in its field.
CarriesValue(payload, text) ==
    payload = text \/ payload = <<"Invalid datetime object: ">> \o text

IsFixedWidthIso(out) ==
    /\ Len(out) = 23
    /\ \A i \in {1, 2, 3, 4, 6, 7, 9, 10, 12, 13, 15, 16, 18, 19, 21, 22, 23} :
          IsAsciiDigit(out[i])
    /\ out[5] = "-" /\ out[8] = "-" /\ out[11] = "T"
    /\ out[14] = ":" /\ out[17] = ":" /\ out[20] = "."

\* A 'YYYY-MM-DD' string that names a calendar date.
IsCalendarDate(text) ==
    /\ Len(text) = 10
    /\ \A i \in {1, 2, 3, 4, 6, 7, 9, 10} : IsDigit(text[i])
    /\ text[5] = "-" /\ text[8] = "-"
    /\ LET year == IntOf(SubSeq(text, 1, 4))
           month == IntOf(SubSeq(text, 6, 7))
           day == IntOf(SubSeq(text, 9, 10))
       IN  /\ year >= 1
           /\ month \in 1..12
           /\ day >= 1 /\ day <= DaysInMonth(year, month)

\* C6: convert_date_to_iso gives for every valid date value the fixed-width
\* text YYYY-MM-DDTHH:MM:SS.mmm of that date (23 characters, milliseconds
\* truncated), and raises InvalidDateFormatError carrying the offending
\* value for every malformed input.
C6_FixedWidthOrError ==
    /\ Applied("convert_date_to_iso") =>
          IF u_args[1].t = "datetime"
          THEN /\ u_ret.kind = "return"
               /\ IsFixedWidthIso(u_ret.value.s)
               /\ IsIsoOf(u_ret.value.s, u_args[1])
          ELSE /\ u_ret.kind = "raise"
               /\ u_ret.exc = "InvalidDateFormatError"
               /\ CarriesValue(u_ret.payload, PyFormat(u_args[1]))
    /\ Applied("legacy_convert_date_to_iso") =>
          IF IsCalendarDate(u_args[1])
          THEN /\ u_ret.kind = "return"
               /\ IsFixedWidthIso(u_ret.value.s)
          ELSE /\ u_ret.kind = "raise"
               /\ u_ret.exc = "InvalidDateFormatError"
               /\ CarriesValue(u_ret.payload, u_args[1])

\* The text of a value as it was given: a str itself, an int as its decimal
\* numeral.
ValueText(v) == IF v[1] = "str" THEN v[2] ELSE ToString(v[2])

\* The pairs 1..n of a dictionary, written left to right.
RECURSIVE QueryOfFirst(_, _)
QueryOfFirst(params, n) ==
    IF n = 0 THEN ""
    ELSE (IF n = 1 THEN "" ELSE QueryOfFirst(params, n - 1) \o "&")
             \o params[n][1] \o "=" \o ValueText(params[n][2])

\* C11: the query string _verifier builds is the key=value pairs of the
\* dictionary joined by & in insertion order, with each value as it was given
\* (no escaping), and building again from the same dictionary gives the same
\* query string.
C11_OrderPreservingAndIdempotent ==
    /\ [](Applied("_verifier") =>
             u_ret = Return(QueryOfFirst(u_args[1], Len(u_args[1]))))
    /\ [][Applied("_verifier") /\ u_args' = u_args => u_ret' = u_ret]_vars

\* Two keys inserted out of alphabetical order, the second value holding
\* reserved characters.
C11_Witness ==
    /\ Applied("_verifier")
    /\ u_args[1] = <<<<"startIndex", IntValue(0)>>,
                     <<"cpeName", StrValue("cpe:2.3:a:b&c=d e")>>>>
    /\ u_ret.value = "startIndex=0&cpeName=cpe:2.3:a:b&c=d e"


====
